---- MODULE Spec2Model ----
(***************************************************************************)
(* Model of windows/winroute/src/winroute/winroute.cpp: the exported       *)
(* function WinRoute_EnsureTopMetric, an exception-to-status adapter       *)
(* around NetworkInterfaces::SetTopMetricForInterfaceByAlias.              *)
(*                                                                         *)
(* Every thread of Threads is a caller.  A call walks through the          *)
(* statements of the function one at a time (pc), so that calls on         *)
(* separate threads interleave at statement granularity.  The outcomes of  *)
(* the collaborator (constructor, SetTopMetricForInterfaceByAlias) and of  *)
(* the caller-supplied error sink are inputs chosen by the environment.    *)
(***************************************************************************)
EXTENDS Integers, Sequences, FiniteSets, TLC

\* Total number of calls the callers start in one behaviour.
MaxCalls == 2

Threads == {"t1", "t2"}

\* const wchar_t *deviceAlias
Aliases == {"eth0", "wg0"}

\* WinRouteErrorSink errorSink: a function pointer, possibly nullptr
NULL == "nullptr"
Sinks == {NULL, "sinkA", "sinkB"}

\* void *errorSinkContext: opaque, passed through
Contexts == {"ctxA", "ctxB"}

\* err.what() of a std::exception raised by the collaborator
Messages == {"enumeration failed", "access denied"}

\* How `NetworkInterfaces interfaces;` can end
CtorOutcomes == {"constructed", "typed", "untyped"}

\* How interfaces.SetTopMetricForInterfaceByAlias(deviceAlias) can end
SetOutcomes == {"true", "false", "typed", "untyped"}

\* How errorSink(err.what(), errorSinkContext) can end
SinkOutcomes == {"returns", "typed", "untyped"}

VARIABLES
    pc,                \* thread -> statement the thread's call is at
    deviceAlias,       \* thread -> argument of the current call
    errorSink,         \* thread -> argument of the current call
    errorSinkContext,  \* thread -> argument of the current call
    interfaces,        \* thread -> state of the local NetworkInterfaces object
    setCalls,          \* thread -> <<alias>> for each SetTopMetric... request made
    outcome,           \* thread -> how the collaborator ended in this call
    metrics_set,       \* thread -> local bool metrics_set
    err,               \* thread -> what() of the caught std::exception
    sinkLog,           \* thread -> invocations of a sink made by this call
    ret,               \* thread -> <<status>> once the call has returned
    returned,          \* all <<collaborator outcome, status>> ever returned
    calls              \* number of calls started

vars == <<pc, deviceAlias, errorSink, errorSinkContext, interfaces, setCalls,
          outcome, metrics_set, err, sinkLog, ret, returned, calls>>

NotInCall == {"idle", "done", "escaped"}

Init ==
    /\ pc = [t \in Threads |-> "idle"]
    /\ deviceAlias = [t \in Threads |-> "eth0"]
    /\ errorSink = [t \in Threads |-> NULL]
    /\ errorSinkContext = [t \in Threads |-> "ctxA"]
    /\ interfaces = [t \in Threads |-> "none"]
    /\ setCalls = [t \in Threads |-> <<>>]
    /\ outcome = [t \in Threads |-> "none"]
    /\ metrics_set = [t \in Threads |-> FALSE]
    /\ err = [t \in Threads |-> ""]
    /\ sinkLog = [t \in Threads |-> <<>>]
    /\ ret = [t \in Threads |-> <<>>]
    /\ returned = {}
    /\ calls = 0

\* A caller enters WinRoute_EnsureTopMetric(alias, sink, ctx).
Call(t, alias, sink, ctx) ==
    /\ pc[t] \in NotInCall
    /\ calls < MaxCalls
    /\ calls' = calls + 1
    /\ pc' = [pc EXCEPT ![t] = "construct"]
    /\ deviceAlias' = [deviceAlias EXCEPT ![t] = alias]
    /\ errorSink' = [errorSink EXCEPT ![t] = sink]
    /\ errorSinkContext' = [errorSinkContext EXCEPT ![t] = ctx]
    /\ interfaces' = [interfaces EXCEPT ![t] = "none"]
    /\ setCalls' = [setCalls EXCEPT ![t] = <<>>]
    /\ outcome' = [outcome EXCEPT ![t] = "none"]
    /\ metrics_set' = [metrics_set EXCEPT ![t] = FALSE]
    /\ err' = [err EXCEPT ![t] = ""]
    /\ sinkLog' = [sinkLog EXCEPT ![t] = <<>>]
    /\ ret' = [ret EXCEPT ![t] = <<>>]
    /\ UNCHANGED returned

\* The handler a failure raised inside the try block lands in.
Handler(o) == IF o = "typed" THEN "catch_std" ELSE "catch_all"

\* NetworkInterfaces interfaces;
Construct(t, o, m) ==
    /\ pc[t] = "construct"
    /\ IF o = "constructed"
       THEN /\ interfaces' = [interfaces EXCEPT ![t] = "live"]
            /\ pc' = [pc EXCEPT ![t] = "set_metric"]
            /\ UNCHANGED <<outcome, err>>
       ELSE /\ pc' = [pc EXCEPT ![t] = Handler(o)]
            /\ outcome' = [outcome EXCEPT ![t] = o]
            /\ err' = [err EXCEPT ![t] = IF o = "typed" THEN m ELSE ""]
            /\ UNCHANGED interfaces
    /\ UNCHANGED <<deviceAlias, errorSink, errorSinkContext, setCalls,
                   metrics_set, sinkLog, ret, returned, calls>>

\* Variant: the handle is heap-allocated and freed only on the normal path,
\* so a failing request leaves it live.
SetTopMetricLeaksOnFailure(t, o, m) ==
    /\ pc[t] = "set_metric"
    /\ setCalls' = [setCalls EXCEPT ![t] = Append(@, deviceAlias[t])]
    /\ outcome' = [outcome EXCEPT ![t] = o]
    /\ IF o \in {"true", "false"}
       THEN /\ metrics_set' = [metrics_set EXCEPT ![t] = (o = "true")]
            /\ pc' = [pc EXCEPT ![t] = "return_value"]
            /\ UNCHANGED err
       ELSE /\ pc' = [pc EXCEPT ![t] = Handler(o)]
            /\ err' = [err EXCEPT ![t] = IF o = "typed" THEN m ELSE ""]
            /\ UNCHANGED metrics_set
    /\ UNCHANGED <<deviceAlias, errorSink, errorSinkContext, interfaces,
                   sinkLog, ret, returned, calls>>

\* bool metrics_set = interfaces.SetTopMetricForInterfaceByAlias(deviceAlias);
\* a failure unwinds the try block, which destroys `interfaces`.
SetTopMetricForInterfaceByAlias(t, o, m) ==
    /\ pc[t] = "set_metric"
    /\ setCalls' = [setCalls EXCEPT ![t] = Append(@, deviceAlias[t])]
    /\ outcome' = [outcome EXCEPT ![t] = o]
    /\ IF o \in {"true", "false"}
       THEN /\ metrics_set' = [metrics_set EXCEPT ![t] = (o = "true")]
            /\ pc' = [pc EXCEPT ![t] = "return_value"]
            /\ UNCHANGED <<interfaces, err>>
       ELSE /\ interfaces' = [interfaces EXCEPT ![t] = "released"]
            /\ pc' = [pc EXCEPT ![t] = Handler(o)]
            /\ err' = [err EXCEPT ![t] = IF o = "typed" THEN m ELSE ""]
            /\ UNCHANGED metrics_set
    /\ UNCHANGED <<deviceAlias, errorSink, errorSinkContext, sinkLog, ret,
                   returned, calls>>

\* Variant: the boolean result is dropped and 0 is returned.
StatusAlwaysNotApplied(b) == 0

\* Variant: completion of the request is reported as success.
StatusAlwaysApplied(b) == 1

\* metrics_set ? 1 : 0
StatusOfResult(b) == IF b THEN 1 ELSE 0

\* The call returns status s to its caller.
Return(t, s) ==
    /\ ret' = [ret EXCEPT ![t] = <<s>>]
    /\ returned' = returned \cup {<<outcome[t], s>>}
    /\ pc' = [pc EXCEPT ![t] = "done"]

\* return metrics_set ? 1 : 0;   leaving the scope destroys `interfaces`.
ReturnValue(t) ==
    /\ pc[t] = "return_value"
    /\ Return(t, StatusOfResult(metrics_set[t]))
    /\ interfaces' = [interfaces EXCEPT ![t] = "released"]
    /\ UNCHANGED <<deviceAlias, errorSink, errorSinkContext, setCalls,
                   outcome, metrics_set, err, sinkLog, calls>>

\* Variant: the context is kept in a static that the other thread's call
\* overwrites.
SinkInvocationSharedContext(t) ==
    [sink |-> errorSink[t], msg |-> err[t],
     ctx |-> errorSinkContext[CHOOSE u \in Threads : u # t]]

\* The arguments of errorSink(err.what(), errorSinkContext)
SinkInvocation(t) ==
    [sink |-> errorSink[t], msg |-> err[t], ctx |-> errorSinkContext[t]]

\* Variant: the null check of the sink is missing.
CatchStdUnchecked(t, so) ==
    /\ pc[t] = "catch_std"
    /\ sinkLog' = [sinkLog EXCEPT ![t] =
                      Append(@, [sink |-> errorSink[t], msg |-> err[t],
                                 ctx |-> errorSinkContext[t]])]
    /\ pc' = [pc EXCEPT ![t] =
                 IF so = "returns" THEN "return_err" ELSE "escaped"]
    /\ UNCHANGED <<deviceAlias, errorSink, errorSinkContext, interfaces,
                   setCalls, outcome, metrics_set, err, ret, returned, calls>>

\* catch (std::exception &err) { if (nullptr != errorSink) { errorSink(...); }
\* A failure raised by the sink is raised inside the handler, outside the
\* try block: no handler of this function catches it.
CatchStd(t, so) ==
    /\ pc[t] = "catch_std"
    /\ IF NULL # errorSink[t]
       THEN /\ sinkLog' = [sinkLog EXCEPT ![t] = Append(@, SinkInvocation(t))]
            /\ pc' = [pc EXCEPT ![t] =
                         IF so = "returns" THEN "return_err" ELSE "escaped"]
       ELSE /\ so = "returns"
            /\ pc' = [pc EXCEPT ![t] = "return_err"]
            /\ UNCHANGED sinkLog
    /\ UNCHANGED <<deviceAlias, errorSink, errorSinkContext, interfaces,
                   setCalls, outcome, metrics_set, err, ret, returned, calls>>

\* Variant: the sink is notified a second time while returning.
ReturnErrNotifiesAgain(t) ==
    /\ pc[t] = "return_err"
    /\ Return(t, -1)
    /\ sinkLog' = [sinkLog EXCEPT ![t] =
                      IF NULL # errorSink[t]
                      THEN Append(@, [sink |-> errorSink[t], msg |-> err[t],
                                      ctx |-> errorSinkContext[t]])
                      ELSE @]
    /\ UNCHANGED <<deviceAlias, errorSink, errorSinkContext, interfaces,
                   setCalls, outcome, metrics_set, err, calls>>

\* Variant: a failure nobody was told about is reported as not-applied.
ReturnErrSinkDependent(t) ==
    /\ pc[t] = "return_err"
    /\ Return(t, IF NULL # errorSink[t] THEN -1 ELSE 0)
    /\ UNCHANGED <<deviceAlias, errorSink, errorSinkContext, interfaces,
                   setCalls, outcome, metrics_set, err, sinkLog, calls>>

\* return -1;   (end of the std::exception handler)
ReturnErr(t) ==
    /\ pc[t] = "return_err"
    /\ Return(t, -1)
    /\ UNCHANGED <<deviceAlias, errorSink, errorSinkContext, interfaces,
                   setCalls, outcome, metrics_set, err, sinkLog, calls>>

\* Variant: the catch-all handler reports to the sink as well.
CatchAllReports(t) ==
    /\ pc[t] = "catch_all"
    /\ Return(t, -1)
    /\ sinkLog' = [sinkLog EXCEPT ![t] =
                      IF NULL # errorSink[t]
                      THEN Append(@, [sink |-> errorSink[t], msg |-> err[t],
                                      ctx |-> errorSinkContext[t]])
                      ELSE @]
    /\ UNCHANGED <<deviceAlias, errorSink, errorSinkContext, interfaces,
                   setCalls, outcome, metrics_set, err, calls>>

\* catch (...) { return -1; }
CatchAll(t) ==
    /\ pc[t] = "catch_all"
    /\ Return(t, -1)
    /\ UNCHANGED <<deviceAlias, errorSink, errorSinkContext, interfaces,
                   setCalls, outcome, metrics_set, err, sinkLog, calls>>

Next ==
    \E t \in Threads :
        \/ \E a \in Aliases, s \in Sinks, c \in Contexts : Call(t, a, s, c)
        \/ \E o \in CtorOutcomes, m \in Messages : Construct(t, o, m)
        \/ \E o \in SetOutcomes, m \in Messages :
               SetTopMetricForInterfaceByAlias(t, o, m)
        \/ ReturnValue(t)
        \/ \E so \in SinkOutcomes : CatchStd(t, so)
        \/ ReturnErr(t)
        \/ CatchAll(t)

Spec == Init /\ [][Next]_vars

TypeOK ==
    /\ pc \in [Threads -> {"idle", "construct", "set_metric", "return_value",
                           "catch_std", "return_err", "catch_all", "done",
                           "escaped"}]
    /\ deviceAlias \in [Threads -> Aliases]
    /\ errorSink \in [Threads -> Sinks]
    /\ errorSinkContext \in [Threads -> Contexts]
    /\ interfaces \in [Threads -> {"none", "live", "released"}]
    /\ outcome \in [Threads -> {"none"} \cup SetOutcomes]
    /\ metrics_set \in [Threads -> BOOLEAN]
    /\ err \in [Threads -> Messages \cup {""}]
    /\ \A t \in Threads : Len(ret[t]) <= 1
    /\ calls \in 0..MaxCalls

----------------------------------------------------------------------------
(* Properties *)

\* The status the contract assigns to a collaborator outcome.
ExpectedStatus(o) ==
    IF o = "true" THEN 1 ELSE IF o = "false" THEN 0 ELSE -1

\* The call of thread t is over: it returned, or a failure left it.
Ended(t) == pc[t] \in {"done", "escaped"}

\* C1: no failure propagates past WinRoute_EnsureTopMetric: whatever the
\* constructor, the request and the sink do, a call never ends by a failure
\* escaping, and a call that is over has returned a status in {1, 0, -1}.
NoFailureEscapes ==
    \A t \in Threads :
        /\ pc[t] # "escaped"
        /\ pc[t] = "done" => ret[t] \in {<<1>>, <<0>>, <<-1>>}

\* C2: whenever the collaborator raised a typed failure, the call returns
\* -1 and, if a sink was supplied, the sink has been invoked exactly once,
\* with a non-empty message and the caller's context pointer.
TypedFailureReturnsAndReports ==
    \A t \in Threads :
        (outcome[t] = "typed" /\ Ended(t)) =>
            /\ ret[t] = <<-1>>
            /\ IF NULL # errorSink[t]
               THEN /\ Len(sinkLog[t]) = 1
                    /\ sinkLog[t][1].msg # ""
                    /\ sinkLog[t][1].msg = err[t]
                    /\ sinkLog[t][1].ctx = errorSinkContext[t]
               ELSE sinkLog[t] = <<>>

\* C3: once the collaborator raised an untyped failure, the sink is not
\* invoked (supplied or not), the call is in the catch-all handler or has
\* returned, and the status it returned is -1.
UntypedFailureSilent ==
    \A t \in Threads :
        outcome[t] = "untyped" =>
            /\ sinkLog[t] = <<>>
            /\ pc[t] \in {"catch_all", "done"}
            /\ pc[t] = "done" => ret[t] = <<-1>>

UntypedFailureSilentWitness ==
    \E t \in Threads :
        /\ outcome[t] = "untyped"
        /\ pc[t] = "done"
        /\ NULL # errorSink[t]
        /\ Len(setCalls[t]) = 1

\* C4: once SetTopMetricForInterfaceByAlias reported true, the sink is not
\* invoked during the call and the call returns 1.
AppliedReturnsOne ==
    \A t \in Threads :
        outcome[t] = "true" =>
            /\ sinkLog[t] = <<>>
            /\ pc[t] \in {"return_value", "done"}
            /\ pc[t] = "done" => ret[t] = <<1>>

AppliedReturnsOneWitness ==
    \E t \in Threads :
        outcome[t] = "true" /\ pc[t] = "done" /\ NULL # errorSink[t]

\* C5: once SetTopMetricForInterfaceByAlias reported false, the sink is not
\* invoked during the call and the call returns 0.
NotAppliedReturnsZero ==
    \A t \in Threads :
        outcome[t] = "false" =>
            /\ sinkLog[t] = <<>>
            /\ pc[t] \in {"return_value", "done"}
            /\ pc[t] = "done" => ret[t] = <<0>>

NotAppliedReturnsZeroWitness ==
    \E t \in Threads :
        outcome[t] = "false" /\ pc[t] = "done" /\ NULL # errorSink[t]

\* C6: with a null sink, a typed or untyped failure of the collaborator
\* ends in status -1 and never in an escaping failure, and no call ever
\* invokes a callback through the null pointer.
NullSinkFailureSilent ==
    \A t \in Threads :
        /\ \A i \in DOMAIN sinkLog[t] : sinkLog[t][i].sink # NULL
        /\ (NULL = errorSink[t] /\ outcome[t] \in {"typed", "untyped"}) =>
               /\ sinkLog[t] = <<>>
               /\ pc[t] \in {"catch_std", "catch_all", "return_err", "done"}
               /\ pc[t] = "done" => ret[t] = <<-1>>

NullSinkFailureSilentWitness ==
    \E t \in Threads :
        /\ NULL = errorSink[t]
        /\ outcome[t] = "typed"
        /\ pc[t] = "done"

\* The variables a call of thread t reads and writes.
Local(t) ==
    <<pc[t], deviceAlias[t], errorSink[t], errorSinkContext[t], interfaces[t],
      setCalls[t], outcome[t], metrics_set[t], err[t], sinkLog[t], ret[t]>>

SinkInvokedInsideCall ==
    /\ [](\A t \in Threads : Len(sinkLog[t]) <= 1)
    /\ [][\A t \in Threads :
            Len(sinkLog'[t]) > Len(sinkLog[t]) =>
                /\ pc[t] = "catch_std"
                /\ outcome[t] = "typed"
                /\ ret[t] = <<>>
                /\ ret'[t] = <<>>
                /\ pc'[t] \in {"return_err", "escaped"}]_vars

SinkInvokedInsideCallWitness ==
    \E t \in Threads :
        /\ pc[t] = "done"
        /\ ret[t] = <<-1>>
        /\ Len(sinkLog[t]) = 1
        /\ calls > 1

\* C9: a call starts without a handle, makes at most one request, with the
\* caller's alias, on a handle it constructed itself, and holds no live
\* handle in its handlers nor once it is over.
HandlePerCall ==
    \A t \in Threads :
        /\ pc[t] = "construct" => interfaces[t] = "none"
        /\ pc[t] = "set_metric" => interfaces[t] = "live" /\ setCalls[t] = <<>>
        /\ Len(setCalls[t]) <= 1
        /\ \A i \in DOMAIN setCalls[t] : setCalls[t][i] = deviceAlias[t]
        /\ setCalls[t] # <<>> => interfaces[t] # "none"
        /\ pc[t] \in {"catch_std", "catch_all", "return_err"} \cup NotInCall
               => interfaces[t] # "live"

HandlePerCallWitness ==
    \E t, u \in Threads :
        /\ pc[t] = "done" /\ ret[t] = <<-1>>
        /\ Len(setCalls[t]) = 1 /\ interfaces[t] = "released"
        /\ pc[u] = "done" /\ ret[u] = <<0>> /\ interfaces[u] = "released"

====
